---- MODULE Spec2Model ----
(***************************************************************************)
(* dlopen2: run-time loading of dynamic link libraries.                    *)
(*                                                                         *)
(* The model covers the raw Library (raw/common.rs), the ownership         *)
(* bundling containers (wrapper/container.rs, wrapper/optional.rs,         *)
(* symbor/container.rs) and the load function that #[derive(WrapperApi)]   *)
(* generates (dlopen2-derive/src/wrapper.rs).  The platform backend        *)
(* (raw/unix.rs, raw/windows.rs) is not part of the sources at hand and is *)
(* modelled from the specification's section 4.1.                          *)
(***************************************************************************)
EXTENDS Integers, Sequences, FiniteSets, TLC

VARIABLES refcount, libs, conts, last, obtainers, facility, memory, threads

vars == <<refcount, libs, conts, last, obtainers, facility, memory, threads>>

\* the address info resolvers and the process-wide facility behind them
resolver == <<obtainers, facility>>

(***************************************************************************)
(* Bounds of the model.                                                    *)
(***************************************************************************)
MaxLibs == 1      \* raw Library values a program holds at once
MaxConts == 1     \* container values a program holds at once
MaxNameLen == 2   \* bytes of a symbol name handed to symbol()
MaxFields == 2    \* fields of a derived API structure
MaxObtainers == 2 \* AddressInfoObtainer values a program constructs
MaxThreads == 2   \* threads that share one Library

(***************************************************************************)
(* Values.                                                                 *)
(***************************************************************************)
\* size_of::<*mut ()>() on a 64 bit target
PtrSize == 8

\* sizes of the type T a caller may ask a symbol as
TSizes == {PtrSize \div 2, PtrSize, 2 * PtrSize}

\* the handle close_lib hands back: not the handle of any loaded image
InvalidHandle == "invalid"

\* the library files on disk; a handle is written as the image it stands for
LibraryFiles == {"libexample.so"}

\* the image of the running program, what open_self opens
SelfImage == "self"

Images == LibraryFiles \cup {SelfImage}

\* paths a program may ask for: a library file, or a file that does not exist
Paths == LibraryFiles \cup {"missing.so"}

\* Option<i32> flags of open_with_flags; <<>> is None
Flags == {<<>>, <<1>>}

\* bytes of a name; 0 is the NUL byte
Bytes == {0, 1, 2}

RECURSIVE SeqsUpTo(_, _)
SeqsUpTo(S, n) ==
    IF n = 0 THEN {<<>>}
    ELSE LET shorter == SeqsUpTo(S, n - 1)
         IN  shorter \cup {Append(s, b) : s \in shorter, b \in S}

\* Rust strings (&str): any bytes, embedded NUL included
Names == SeqsUpTo(Bytes, MaxNameLen)

HasNul(name) == \E i \in 1..Len(name) : name[i] = 0

\* C strings (&CStr): no interior NUL, one terminating NUL
CStrs == {Append(n, 0) : n \in {m \in Names : ~HasNul(m)}}

\* the null address
Null == <<>>

Ok(v) == [tag |-> "Ok", err |-> "", val |-> v]

Err(e) == [tag |-> "Err", err |-> e, val |-> <<>>]

Panic(msg) == [tag |-> "Panic", err |-> msg, val |-> <<>>]

(***************************************************************************)
(* Platform loader backend.                                                *)
(***************************************************************************)
\* what the C side reads of a string: the bytes before the first NUL
CStrBytes(c) ==
    LET nul == {i \in 1..Len(c) : c[i] = 0}
    IN  IF nul = {} THEN c
        ELSE SubSeq(c, 1, (CHOOSE i \in nul : \A j \in nul : i <= j) - 1)

\* the export table of an image: a non-null address, a null address, or no export
ExportOf(image, n) ==
    IF n = <<>> THEN "absent"
    ELSE IF n[1] = 1 THEN "address"
    ELSE IF Len(n) = 1 THEN "null"
    ELSE "absent"

AddressOf(image, n) == <<image, n>>

open_lib(path, flags) ==
    IF path \in LibraryFiles THEN Ok(<<path>>) ELSE Err("OpeningLibraryError")

open_self == Ok(<<SelfImage>>)

close_lib(handle) == InvalidHandle

\* the loader's reference count of every image after open_lib / close_lib
Acquire(rc, handle) == [rc EXCEPT ![handle] = @ + 1]

Release(rc, handle) == [rc EXCEPT ![handle] = @ - 1]

\* the loader's lookup of name n in an image
Lookup(handle, n) ==
    CASE ExportOf(handle, n) = "address" -> Ok(AddressOf(handle, n))
      [] ExportOf(handle, n) = "null" -> Ok(Null)
      [] OTHER -> Err("SymbolGettingError")

get_sym(handle, cname) == Lookup(handle, CStrBytes(cname))

(***************************************************************************)
(* raw::Library                                                            *)
(***************************************************************************)
NoLibrary == [state |-> "none", handle |-> InvalidHandle, closes |-> 0]

OpenLibrary(h) == [state |-> "open", handle |-> h, closes |-> 0]

\* CString::new as it would be without the search for an interior NUL
CString_new_unchecked(name) == Ok(Append(name, 0))

\* CString::new: a name with an interior NUL is refused, else NUL is appended
CString_new(name) ==
    IF HasNul(name) THEN Err("NullCharacter") ELSE Ok(Append(name, 0))

is_null(raw) == raw = Null

\* transmute_copy as it would be if the value made for the caller pointed at
\* the export next to the one looked up
transmute_copy_of_neighbour(raw) ==
    IF raw[2] = <<1>> THEN <<raw[1], <<1, 1>>>> ELSE raw

transmute_copy(raw) == raw

\* symbol_cstr after get_sym answered raw: `?`, then the null check
SymbolOfRaw(raw, cname) ==
    IF raw.tag = "Err"
    THEN [res |-> raw, gets |-> <<cname>>]
    ELSE IF is_null(raw.val)
         THEN [res |-> Err("NullSymbol"), gets |-> <<cname>>]
         ELSE [res |-> Ok(transmute_copy(raw.val)), gets |-> <<cname>>]

\* symbol_cstr as it would be without the null check
symbol_cstr_no_null_check(lib, cname, tsize) ==
    IF tsize # PtrSize
    THEN [res |-> Panic("size"), gets |-> <<>>]
    ELSE [res |-> get_sym(lib.handle, cname), gets |-> <<cname>>]

\* symbol_cstr as it would be with the size checked after the call of get_sym
symbol_cstr_late_size_check(lib, cname, tsize) ==
    IF tsize # PtrSize
    THEN [res |-> Panic("size"), gets |-> <<cname>>]
    ELSE SymbolOfRaw(get_sym(lib.handle, cname), cname)

\* Library::symbol_cstr::<T>, T of size tsize. gets: the names handed to get_sym
symbol_cstr(lib, cname, tsize) ==
    IF tsize # PtrSize
    THEN [res |-> Panic("size"), gets |-> <<>>]
    ELSE SymbolOfRaw(get_sym(lib.handle, cname), cname)

\* symbol after CString::new answered cname
SymbolOfCString(lib, cname, tsize) ==
    IF cname.tag = "Err"
    THEN [res |-> cname, gets |-> <<>>]
    ELSE symbol_cstr(lib, cname.val, tsize)

\* Library::symbol::<T>
symbol(lib, name, tsize) == SymbolOfCString(lib, CString_new(name), tsize)

\* Library::into_raw: the stored handle, copied
into_raw(lib) == lib.handle

\* Drop for Library as it would be without the close_lib call
DropLib_no_close(lib, rc) ==
    [lib |-> [lib EXCEPT !.state = "dropped"], rc |-> rc]

\* Drop for Library: self.handle = close_lib(self.handle). lib: the value as it
\* is left; rc: the loader's reference counts after the close_lib call
DropLib(lib, rc) ==
    [lib |-> [lib EXCEPT !.state = "dropped",
                         !.handle = close_lib(lib.handle),
                         !.closes = @ + 1],
     rc |-> Release(rc, lib.handle)]

LibSlots == 1..MaxLibs

ContSlots == 1..MaxConts

(***************************************************************************)
(* #[derive(WrapperApi)]: the descriptor of a field and the load generated *)
(* for it.                                                                 *)
(***************************************************************************)
ALLOW_NULL == "dlopen2_allow_null"

\* syn::Type of a field, as far as the generator looks at it
BareFn == [kind |-> "BareFn", mut |-> FALSE, colon |-> FALSE, segs |-> <<>>, arg |-> ""]

Reference(m) == [kind |-> "Reference", mut |-> m, colon |-> FALSE, segs |-> <<>>, arg |-> ""]

Ptr(m) == [kind |-> "Ptr", mut |-> m, colon |-> FALSE, segs |-> <<>>, arg |-> ""]

Path(colon, segs, arg) ==
    [kind |-> "Path", mut |-> FALSE, colon |-> colon, segs |-> segs, arg |-> arg]

Tuple == [kind |-> "Tuple", mut |-> FALSE, colon |-> FALSE, segs |-> <<>>, arg |-> ""]

\* syn::Attribute: #[ident], #[ident = "value"] or #[ident(...)]
MarkerAttr(id) == [meta |-> "Path", ident |-> id, value |-> <<>>]

NameValueAttr(id, v) == [meta |-> "NameValue", ident |-> id, value |-> v]

Field(ident, attrs, ty) == [ident |-> ident, attrs |-> attrs, ty |-> ty]

First(S) == CHOOSE i \in S : \A j \in S : i <= j

\* the first bare path attribute decides
has_marker_attr(field, attr_name) ==
    LET paths == {i \in 1..Len(field.attrs) : field.attrs[i].meta = "Path"}
    IN  IF paths = {} THEN FALSE
        ELSE field.attrs[First(paths)].ident = attr_name

\* <<v>> is Some(v), <<>> is None
find_str_attr_val(field, attr_name) ==
    LET hits == {i \in 1..Len(field.attrs) :
                    /\ field.attrs[i].meta = "NameValue"
                    /\ field.attrs[i].ident = attr_name}
    IN  IF hits = {} THEN <<>> ELSE <<field.attrs[First(hits)].value>>

\* symbol_name as it would be without the look at dlopen2_name
symbol_name_of_ident(field) == field.ident

symbol_name(field) ==
    LET val == find_str_attr_val(field, "dlopen2_name")
    IN  IF val # <<>> THEN val[1] ELSE field.ident

\* CStr::from_bytes_with_nul_unchecked(concat!(symbol_name, "\0").as_bytes())
SymbolCStr(field) == Append(symbol_name(field), 0)

normal_field(field) ==
    [gen |-> "normal", sym |-> SymbolCStr(field), null_fun |-> ""]

\* allow_null_field as it would be with the `?` of normal_field
allow_null_field_strict(field, ptr) ==
    [gen |-> "normal", sym |-> SymbolCStr(field), null_fun |-> ""]

allow_null_field(field, ptr) ==
    [gen |-> "allow_null", sym |-> SymbolCStr(field),
     null_fun |-> IF ptr.mut THEN "null" ELSE "null_mut"]

\* optional_field as it would be with the `?` of normal_field
optional_field_propagating(field) == normal_field(field)

optional_field(field) ==
    [gen |-> "optional", sym |-> SymbolCStr(field), null_fun |-> ""]

Rejected == [gen |-> "panic", sym |-> <<>>, null_fun |-> ""]

IsOptionPath(ty) ==
    \/ ty.segs \in {<<"core", "option", "Option">>, <<"std", "option", "Option">>}
    \/ ~ty.colon /\ ty.segs = <<"option", "Option">>
    \/ ~ty.colon /\ ty.segs = <<"Option">>

\* the code generated for one field, or the generator's panic
field_to_tokens(field) ==
    LET allow_null == has_marker_attr(field, ALLOW_NULL)
    IN  CASE field.ty.kind \in {"BareFn", "Reference"} ->
               IF allow_null THEN Rejected ELSE normal_field(field)
          [] field.ty.kind = "Ptr" ->
               IF allow_null THEN allow_null_field(field, field.ty)
               ELSE normal_field(field)
          [] field.ty.kind = "Path" ->
               IF IsOptionPath(field.ty) THEN optional_field(field) ELSE Rejected
          [] OTHER -> Rejected

\* values of a loaded field: a plain pointer, Some(pointer) or None
Plain(p) == [opt |-> "plain", ptr |-> p]

Some(p) == [opt |-> "some", ptr |-> p]

None == [opt |-> "none", ptr |-> Null]

\* what the expression generated for one field evaluates to: the field's value
\* (ret FALSE) or the error the generated load returns with (ret TRUE)
FieldValue(tok, r) ==
    CASE tok.gen = "normal" ->
           IF r.res.tag = "Ok"
           THEN [ret |-> FALSE, val |-> Plain(r.res.val), err |-> "", gets |-> r.gets]
           ELSE [ret |-> TRUE, val |-> None, err |-> r.res.err, gets |-> r.gets]
      [] tok.gen = "allow_null" ->
           IF r.res.tag = "Ok"
           THEN [ret |-> FALSE, val |-> Plain(r.res.val), err |-> "", gets |-> r.gets]
           ELSE IF r.res.err = "NullSymbol"
           THEN [ret |-> FALSE, val |-> Plain(Null), err |-> "", gets |-> r.gets]
           ELSE [ret |-> TRUE, val |-> None, err |-> r.res.err, gets |-> r.gets]
      [] OTHER ->
           IF r.res.tag = "Ok"
           THEN [ret |-> FALSE, val |-> Some(r.res.val), err |-> "", gets |-> r.gets]
           ELSE IF r.res.err \in {"NullSymbol", "SymbolGettingError"}
           THEN [ret |-> FALSE, val |-> None, err |-> "", gets |-> r.gets]
           ELSE [ret |-> TRUE, val |-> None, err |-> r.res.err, gets |-> r.gets]

\* the field expression: lib.symbol_cstr(<name>) and the match or `?` around it
FieldLoad(tok, lib) == FieldValue(tok, symbol_cstr(lib, tok.sym, PtrSize))

\* the generated WrapperApi::load: Ok(Self { field: <expr>, ... }), the field
\* expressions evaluated in declaration order from field k on
RECURSIVE LoadFields(_, _, _, _, _)
\* the generated load as it would be if a failed field did not end it
LoadFieldsFrom_lenient(api, lib, k, acc, gets, f) ==
    LoadFields(api, lib, k + 1, Append(acc, f.val), gets \o f.gets)

LoadFieldsFrom(api, lib, k, acc, gets, f) ==
    IF f.ret
    THEN [res |-> Err(f.err), gets |-> gets \o f.gets]
    ELSE LoadFields(api, lib, k + 1, Append(acc, f.val), gets \o f.gets)

LoadFields(api, lib, k, acc, gets) ==
    IF k > Len(api) THEN [res |-> Ok(acc), gets |-> gets]
    ELSE LoadFieldsFrom(api, lib, k, acc, gets,
                        FieldLoad(field_to_tokens(api[k]), lib))

WrapperApi_load(api, lib) == LoadFields(api, lib, 1, <<>>, <<>>)

\* WrapperApi for Option<T> as it would be if it handed T's error on
Option_load_propagating(a) ==
    IF a.res.tag = "Ok" THEN [a EXCEPT !.res = Ok(<<a.res.val>>)] ELSE a

\* WrapperApi for Option<T>, given what T::load answered; <<v>> is Some(v),
\* <<>> is None
Option_load(a) ==
    IF a.res.tag = "Ok"
    THEN [a EXCEPT !.res = Ok(<<a.res.val>>)]
    ELSE [a EXCEPT !.res = Ok(<<>>)]

\* the load of a structure of two sub-APIs, each field WrapperApi::load(lib)?
MultiApi_load(a, b) ==
    IF a.res.tag = "Err" THEN a
    ELSE IF b.res.tag = "Err" THEN [res |-> b.res, gets |-> a.gets \o b.gets]
    ELSE [res |-> Ok(<<a.res.val, b.res.val>>), gets |-> a.gets \o b.gets]

\* a bare function type with a variadic argument list
VariadicFn == [BareFn EXCEPT !.arg = "variadic"]

\* an accessor generated for a field: its name (prefix, field name, suffix),
\* its receiver and its body
Method(prefix, ident, suffix, receiver, body) ==
    [prefix |-> prefix, ident |-> ident, suffix |-> suffix,
     receiver |-> receiver, body |-> body]

\* Option<TokenStream> of field_to_wrapper, or its panic
Wrappers(methods) == [gen |-> "some", methods |-> methods]

NoWrapper == [gen |-> "none", methods |-> <<>>]

WrapperPanic == [gen |-> "panic", methods |-> <<>>]

\* the accessors of a reference field: the constant one, then the _mut one
ReferenceWrappers(field) ==
    IF field.ty.mut
    THEN Wrappers(<<Method("", field.ident, "", "&self", "self.field"),
                    Method("", field.ident, "_mut", "&mut self", "self.field")>>)
    ELSE Wrappers(<<Method("", field.ident, "", "&self", "self.field")>>)

\* the accessors of a field of a path type: the segment Option is looked for
\* and its first generic argument decides
OptionWrappers(field) ==
    IF ~\E i \in 1..Len(field.ty.segs) : field.ty.segs[i] = "Option"
    THEN WrapperPanic
    ELSE CASE field.ty.arg = "BareFn" ->
                Wrappers(<<Method("", field.ident, "", "&self", "self.field.map(call)"),
                           Method("has_", field.ident, "", "&self", "self.field.is_some()")>>)
           [] field.ty.arg = "VariadicFn" -> NoWrapper
           [] field.ty.arg = "ReferenceMut" ->
                Wrappers(<<Method("", field.ident, "", "&mut self", "if let Some")>>)
           [] field.ty.arg = "Reference" ->
                Wrappers(<<Method("", field.ident, "", "&self", "self.field")>>)
           [] OTHER -> WrapperPanic

field_to_wrapper(field) ==
    CASE field.ty.kind = "BareFn" ->
           IF field.ty.arg = "variadic" THEN NoWrapper
           ELSE Wrappers(<<Method("", field.ident, "", "&self", "call")>>)
      [] field.ty.kind = "Reference" -> ReferenceWrappers(field)
      [] field.ty.kind = "Ptr" -> NoWrapper
      [] field.ty.kind = "Path" -> OptionWrappers(field)
      [] OTHER -> WrapperPanic

\* the generator runs field_to_tokens and field_to_wrapper on every field; a
\* panic of either is a compile error of the structure
FieldAccepted(field) ==
    /\ field_to_tokens(field).gen # "panic"
    /\ field_to_wrapper(field).gen # "panic"

\* impl_wrapper_api: the generated load (one expression per field) and the
\* generated accessors, or the generator's panic
impl_wrapper_api(fields) ==
    IF \A k \in 1..Len(fields) : FieldAccepted(fields[k])
    THEN Ok([load |-> [k \in 1..Len(fields) |-> field_to_tokens(fields[k])],
             methods |-> [k \in 1..Len(fields) |-> field_to_wrapper(fields[k]).methods]])
    ELSE Panic("derive")

\* the structures the generator accepts
Derivable(api) == \A k \in 1..Len(api) : field_to_tokens(api[k]).gen # "panic"

(***************************************************************************)
(* symbor: conversion of a raw resolution result, and the load of a        *)
(* SymBorApi structure.                                                    *)
(***************************************************************************)
\* Library::ptr_or_null_cstr: the raw result, a found address (null or not) or
\* the backend's error
RawResult(lib, cname) == [res |-> get_sym(lib.handle, cname), gets |-> <<cname>>]

\* FromRawResult for Symbol, Ref, RefMut: null is refused
Symbol_from_raw_result(raw_result) ==
    IF raw_result.tag = "Err" THEN raw_result
    ELSE IF is_null(raw_result.val) THEN Err("NullSymbol")
    ELSE Ok(Plain(raw_result.val))

\* FromRawResult for PtrOrNull as it would be if it refused null
PtrOrNull_from_raw_result_refusing(raw_result) ==
    IF raw_result.tag = "Err" THEN raw_result
    ELSE IF is_null(raw_result.val) THEN Err("NullSymbol")
    ELSE Ok(Plain(raw_result.val))

\* FromRawResult for PtrOrNull
PtrOrNull_from_raw_result(raw_result) ==
    IF raw_result.tag = "Ok" THEN Ok(Plain(raw_result.val)) ELSE raw_result

\* FromRawResult for Option<T> as it would be if it handed T's error on
OptionOf_propagating(inner) ==
    IF inner.tag = "Ok" THEN Ok(Some(inner.val.ptr)) ELSE inner

\* FromRawResult for Option<T>, given what T::from_raw_result answered
OptionOf(inner) == IF inner.tag = "Ok" THEN Ok(Some(inner.val.ptr)) ELSE Ok(None)

Option_from_raw_result(raw_result) == OptionOf(Symbol_from_raw_result(raw_result))

SymBorField(sym, wrap) == [sym |-> sym, wrap |-> wrap]

from_raw_result(wrap, raw_result) ==
    CASE wrap = "PtrOrNull" -> PtrOrNull_from_raw_result(raw_result)
      [] wrap = "Option" -> Option_from_raw_result(raw_result)
      [] wrap = "Option<PtrOrNull>" -> OptionOf(PtrOrNull_from_raw_result(raw_result))
      [] OTHER -> Symbol_from_raw_result(raw_result)

RECURSIVE SymBorLoadFields(_, _, _, _, _)
SymBorLoadFieldsFrom(api, lib, k, acc, gets, f) ==
    IF f.tag = "Err"
    THEN [res |-> Err(f.err), gets |-> gets]
    ELSE SymBorLoadFields(api, lib, k + 1, Append(acc, f.val), gets)

SymBorFieldLoad(field, raw) == from_raw_result(field.wrap, raw.res)

SymBorLoadFields(api, lib, k, acc, gets) ==
    IF k > Len(api) THEN [res |-> Ok(acc), gets |-> gets]
    ELSE SymBorLoadFieldsFrom(
             api, lib, k, acc, Append(gets, Append(api[k].sym, 0)),
             SymBorFieldLoad(api[k], RawResult(lib, Append(api[k].sym, 0))))

SymBorApi_load(api, lib) == SymBorLoadFields(api, lib, 1, <<>>, <<>>)

(***************************************************************************)
(* Containers.                                                             *)
(***************************************************************************)
NoContainer ==
    [state |-> "none", kind |-> "none", lib |-> NoLibrary, api |-> <<>>,
     optional |-> <<>>]

Container(kind, lib, api, optional) ==
    [state |-> "live", kind |-> kind, lib |-> lib, api |-> api,
     optional |-> optional]

\* the outcome of a load: the container made (if any), the loader's reference
\* counts, the result handed to the caller and the backend calls made
Loaded(cont, rc, res, gets, opens, closes) ==
    [cont |-> cont, rc |-> rc, res |-> res, gets |-> gets, opens |-> opens,
     closes |-> closes]

\* Result::ok
ResultOk(res) == IF res.tag = "Ok" THEN <<res.val>> ELSE <<>>

\* the rest of a load once T::load failed: the error is returned and the
\* local `lib` goes out of scope
LoadFailed(a, d) == Loaded(NoContainer, d.rc, a.res, a.gets, 1, d.lib.closes)

\* the load as it would be if the library were forgotten, not dropped, when
\* T::load fails
ContainerOfApi_leaking(kind, lib, rc1, a) ==
    IF a.res.tag = "Err"
    THEN Loaded(NoContainer, rc1, a.res, a.gets, 1, 0)
    ELSE Loaded(Container(kind, lib, a.res.val, <<>>), rc1, Ok(<<>>), a.gets, 1, 0)

\* let api = T::load(&lib)?; Ok(Self { lib, api })
ContainerOfApi(kind, lib, rc1, a) ==
    IF a.res.tag = "Err"
    THEN LoadFailed(a, DropLib(lib, rc1))
    ELSE Loaded(Container(kind, lib, a.res.val, <<>>), rc1, Ok(<<>>), a.gets, 1, 0)

\* wrapper::Container::load / load_self / load_with_flags after the open call
\* gave `opened`
wrapper_Container_load(opened, api, rc) ==
    IF opened.tag = "Err" THEN Loaded(NoContainer, rc, opened, <<>>, 0, 0)
    ELSE ContainerOfApi("wrapper", OpenLibrary(opened.val[1]),
                        Acquire(rc, opened.val[1]),
                        WrapperApi_load(api, OpenLibrary(opened.val[1])))

\* symbor::Container::load / load_self
symbor_Container_load(opened, api, rc) ==
    IF opened.tag = "Err" THEN Loaded(NoContainer, rc, opened, <<>>, 0, 0)
    ELSE ContainerOfApi("symbor", OpenLibrary(opened.val[1]),
                        Acquire(rc, opened.val[1]),
                        SymBorApi_load(api, OpenLibrary(opened.val[1])))

\* the rest of OptionalContainer::load as it would be with
\* Optional::load(&lib)? in place of Optional::load(&lib).ok()
WithOptional_propagating(l, o) ==
    IF o.res.tag = "Err"
    THEN LoadFailed(o, DropLib(l.cont.lib, l.rc))
    ELSE [l EXCEPT !.cont.kind = "optional", !.cont.optional = <<o.res.val>>,
                   !.gets = @ \o o.gets]

\* let optional = Optional::load(&lib).ok(); Ok(Self { lib, api, optional })
WithOptional(l, o) ==
    [l EXCEPT !.cont.kind = "optional", !.cont.optional = ResultOk(o.res),
              !.gets = @ \o o.gets]

\* let api = Api::load(&lib)?; and the rest of OptionalContainer::load
OptionalOfApi(lib, rc1, optapi, a) ==
    IF a.res.tag = "Err"
    THEN LoadFailed(a, DropLib(lib, rc1))
    ELSE WithOptional(ContainerOfApi("optional", lib, rc1, a),
                      WrapperApi_load(optapi, lib))

\* wrapper::OptionalContainer::load / load_self / load_with_flags
OptionalContainer_load(opened, api, optapi, rc) ==
    IF opened.tag = "Err" THEN Loaded(NoContainer, rc, opened, <<>>, 0, 0)
    ELSE OptionalOfApi(OpenLibrary(opened.val[1]), Acquire(rc, opened.val[1]),
                       optapi, WrapperApi_load(api, OpenLibrary(opened.val[1])))

\* declaration order of the fields of the container structures
FieldOrder(kind) ==
    CASE kind = "wrapper" -> <<"lib", "api">>
      [] kind = "symbor" -> <<"lib", "api">>
      [] OTHER -> <<"lib", "api", "optional">>

\* drop of one field of a container
LibDropped(cont, d) == [cont |-> [cont EXCEPT !.lib = d.lib], rc |-> d.rc]

DropField(name, cont, rc) ==
    CASE name = "lib" -> LibDropped(cont, DropLib(cont.lib, rc))
      [] name = "api" -> [cont |-> [cont EXCEPT !.api = <<>>], rc |-> rc]
      [] OTHER -> [cont |-> [cont EXCEPT !.optional = <<>>], rc |-> rc]

\* the drop glue of a container: its fields are dropped in declaration order.
\* done: the fields dropped so far, in the order of their drops
RECURSIVE DropFields(_, _, _, _, _)
DropFieldsFrom(order, k, d, done) == DropFields(order, k + 1, d.cont, d.rc, done)

DropFields(order, k, cont, rc, done) ==
    IF k > Len(order)
    THEN [cont |-> [cont EXCEPT !.state = "dropped"], rc |-> rc, order |-> done]
    ELSE DropFieldsFrom(order, k, DropField(order[k], cont, rc),
                        Append(done, order[k]))

(***************************************************************************)
(* Inputs of the container operations.                                     *)
(***************************************************************************)
\* exported at a non-null address, exported as null, not exported
SymAddress == <<1>>

SymNull == <<2>>

SymAbsent == <<2, 1>>

\* API structures a program derives WrapperApi for: one that loads (its
\* optional field absent), one with a field the library does not export, one
\* with a field exported as null
ApiLoads ==
    <<Field(SymAddress, <<>>, BareFn),
      Field(SymAbsent, <<>>, Path(FALSE, <<"Option">>, "BareFn"))>>

ApiMissing == <<Field(SymAddress, <<>>, BareFn), Field(SymAbsent, <<>>, BareFn)>>

ApiNull == <<Field(SymNull, <<>>, Reference(FALSE))>>

ContainerApis == {ApiLoads, ApiMissing, ApiNull}

\* API structures a program gives an OptionalContainer as its optional API
OptionalApis == {ApiLoads, ApiMissing}

\* API structures a program derives SymBorApi for, in the same three cases
SymBorLoads ==
    <<SymBorField(SymAddress, "Symbol"), SymBorField(SymNull, "PtrOrNull")>>

SymBorMissing ==
    <<SymBorField(SymAddress, "Symbol"), SymBorField(SymAbsent, "Symbol")>>

SymBorNull == <<SymBorField(SymNull, "Symbol")>>

SymBorApis == {SymBorLoads, SymBorMissing, SymBorNull}

(***************************************************************************)
(* Static data of the images.                                              *)
(***************************************************************************)
\* the value of a static as the image is mapped: rust_i32_mut
InitialValue == 42

\* values a program writes to it
DataValues == {InitialValue, InitialValue + 13}

\* the addresses of the mutable statics the images export
DataAddresses == {AddressOf(i, n) : i \in Images, n \in {SymAddress, <<1, 1>>}}

\* an API structure whose fields all name the static at SymAddress: a mutable
\* reference, a raw pointer and a shared reference
DataApi ==
    <<Field(SymAddress, <<>>, Reference(TRUE)),
      Field(SymAbsent, <<NameValueAttr("dlopen2_name", SymAddress)>>, Ptr(FALSE)),
      Field(SymNull, <<NameValueAttr("dlopen2_name", SymAddress)>>, Reference(FALSE))>>

SymBorData ==
    <<SymBorField(SymAddress, "Symbol"), SymBorField(SymAddress, "PtrOrNull")>>

\* an image no handle is open for is unmapped; mapped again, its statics have
\* their initial values
Unmapped(mem, rc) ==
    [a \in DOMAIN mem |-> IF rc[a[1]] = 0 THEN InitialValue ELSE mem[a]]

(***************************************************************************)
(* raw::AddressInfoObtainer and the backend's reverse lookup.              *)
(***************************************************************************)
ObtainerSlots == 1..MaxObtainers

\* the process-wide facility: the instances it counts, whether reverse
\* lookups of symbols are available, and the init and cleanup calls made
NoFacility == [count |-> 0, ready |-> FALSE, inits |-> 0, cleanups |-> 0]

addr_info_init(f) ==
    [f EXCEPT !.count = @ + 1, !.ready = TRUE, !.inits = @ + 1]

addr_info_cleanup(f) ==
    [f EXCEPT !.count = @ - 1, !.ready = (f.count > 1), !.cleanups = @ + 1]

\* the file an image was loaded from
PathOf(image) == IF image = SelfImage THEN "/proc/self/exe" ELSE image

\* the address an image is mapped at
BaseOf(image) == AddressOf(image, <<>>)

\* the exported symbol that covers an address, if the facility finds one
OverlappingSymbol(addr, f) ==
    IF f.ready /\ ExportOf(addr[1], addr[2]) = "address"
    THEN <<[name |-> addr[2], addr |-> addr]>>
    ELSE <<>>

AddressInfo(addr, f) ==
    [dll_path |-> PathOf(addr[1]), dll_base_addr |-> BaseOf(addr[1]),
     overlapping_symbol |-> OverlappingSymbol(addr, f)]

addr_info_obtain(addr, rc, f) ==
    IF addr = Null THEN Err("AddrNotMatchingDll")
    ELSE IF rc[addr[1]] = 0 THEN Err("AddrNotMatchingDll")
    ELSE Ok(AddressInfo(addr, f))

\* an AddressInfoObtainer value, with the init and cleanup calls made for it
NoObtainer == [state |-> "none", inits |-> 0, cleanups |-> 0]

\* new as it would be without the addr_info_init call
AddressInfoObtainer_new_no_init(f) ==
    [obt |-> [state |-> "live", inits |-> 0, cleanups |-> 0], fac |-> f]

\* AddressInfoObtainer::new
AddressInfoObtainer_new(f) ==
    [obt |-> [state |-> "live", inits |-> 1, cleanups |-> 0],
     fac |-> addr_info_init(f)]

\* Default for AddressInfoObtainer
AddressInfoObtainer_default(f) == AddressInfoObtainer_new(f)

\* obtain as it would be if it looked up the start of the address's module
obtain_of_base(addr, rc, f) ==
    addr_info_obtain(IF addr = Null THEN Null ELSE BaseOf(addr[1]), rc, f)

\* AddressInfoObtainer::obtain
obtain(addr, rc, f) == addr_info_obtain(addr, rc, f)

\* Drop as it would be without the addr_info_cleanup call
AddressInfoObtainer_drop_no_cleanup(o, f) ==
    [obt |-> [o EXCEPT !.state = "dropped"], fac |-> f]

\* Drop for AddressInfoObtainer
AddressInfoObtainer_drop(o, f) ==
    [obt |-> [o EXCEPT !.state = "dropped", !.cleanups = @ + 1],
     fac |-> addr_info_cleanup(f)]

\* what the last call did: its result and the backend calls it made
(***************************************************************************)
(* Threads that call symbol / symbol_cstr on a shared &Library.            *)
(***************************************************************************)
ThreadSlots == 1..MaxThreads

\* a thread's call: where it is, its arguments, the C string it looks up, what
\* get_sym answered, what it returns, and the threads that were between
\* their get_sym and their return when it called get_sym
NoThread ==
    [pc |-> "idle", op |-> "none", lib |-> 0, name |-> <<>>, tsize |-> 0,
     cname |-> <<>>, raw |-> Ok(<<>>), res |-> Ok(<<>>), with |-> {}]

\* the part of a call before get_sym: the conversion of the name (symbol
\* only) and the size check touch nothing shared
ThreadEntry(op, i, name, tsize, c) ==
    IF c.tag = "Err"
    THEN [NoThread EXCEPT !.pc = "done", !.op = op, !.lib = i, !.name = name,
                          !.tsize = tsize, !.res = c]
    ELSE IF tsize # PtrSize
    THEN [NoThread EXCEPT !.pc = "done", !.op = op, !.lib = i, !.name = name,
                          !.tsize = tsize, !.res = Panic("size")]
    ELSE [NoThread EXCEPT !.pc = "lookup", !.op = op, !.lib = i, !.name = name,
                          !.tsize = tsize, !.cname = c.val]

Call(op, slot, arg, tsize, res, gets, opens, closes) ==
    [op |-> op, slot |-> slot, arg |-> arg, tsize |-> tsize, res |-> res,
     gets |-> gets, opens |-> opens, closes |-> closes, order |-> <<>>]

NoCall == Call("none", 0, <<>>, 0, Ok(<<>>), <<>>, 0, 0)

Init ==
    /\ refcount = [i \in Images |-> IF i = SelfImage THEN 1 ELSE 0]
    /\ libs = [i \in LibSlots |-> NoLibrary]
    /\ conts = [c \in ContSlots |-> NoContainer]
    /\ last = NoCall
    /\ obtainers = [o \in ObtainerSlots |-> NoObtainer]
    /\ facility = NoFacility
    /\ memory = [a \in DataAddresses |-> InitialValue]
    /\ threads = [t \in ThreadSlots |-> NoThread]

(***************************************************************************)
(* Operations on raw::Library values.                                      *)
(***************************************************************************)
\* Library::open / open_with_flags / open_self, given the backend's answer
LibraryOpen(op, i, opened) ==
    /\ libs[i].state # "open"
    /\ IF opened.tag = "Ok"
       THEN /\ libs' = [libs EXCEPT ![i] = OpenLibrary(opened.val[1])]
            /\ refcount' = Acquire(refcount, opened.val[1])
            /\ last' = Call(op, i, <<>>, 0, Ok(opened.val), <<>>, 1, 0)
       ELSE /\ UNCHANGED <<libs, refcount>>
            /\ last' = Call(op, i, <<>>, 0, opened, <<>>, 0, 0)
    /\ UNCHANGED <<conts, resolver, memory, threads>>

Open(i, path) == LibraryOpen("open", i, open_lib(path, <<>>))

OpenWithFlags(i, path, flags) ==
    LibraryOpen("open_with_flags", i, open_lib(path, flags))

OpenSelf(i) == LibraryOpen("open_self", i, open_self)

Resolved(op, i, name, tsize, r) ==
    /\ libs[i].state = "open"
    /\ last' = Call(op, i, name, tsize, r.res, r.gets, 0, 0)
    /\ UNCHANGED <<refcount, libs, conts, resolver, memory, threads>>

Symbol(i, name, tsize) ==
    Resolved("symbol", i, name, tsize, symbol(libs[i], name, tsize))

SymbolCstr(i, cname, tsize) ==
    Resolved("symbol_cstr", i, cname, tsize, symbol_cstr(libs[i], cname, tsize))

IntoRaw(i) ==
    /\ libs[i].state = "open"
    /\ last' = Call("into_raw", i, <<>>, 0, Ok(<<into_raw(libs[i])>>), <<>>, 0, 0)
    /\ UNCHANGED <<refcount, libs, conts, resolver, memory, threads>>

LibraryDropped(i, d) ==
    /\ libs' = [libs EXCEPT ![i] = d.lib]
    /\ refcount' = d.rc
    /\ last' = Call("drop", i, <<>>, 0, Ok(<<>>), <<>>, 0,
                    d.lib.closes - libs[i].closes)
    /\ memory' = Unmapped(memory, d.rc)
    /\ UNCHANGED <<conts, resolver, threads>>

DropLibrary(i) ==
    /\ libs[i].state = "open"
    /\ LibraryDropped(i, DropLib(libs[i], refcount))

(***************************************************************************)
(* Operations on containers.                                               *)
(***************************************************************************)
\* the arguments of a load: what the open call answered and the API
\* structures to resolve
LoadArgs(opened, api, optapi) == [opened |-> opened, api |-> api, optapi |-> optapi]

ContainerLoad(op, c, args, l) ==
    /\ conts[c].state # "live"
    /\ conts' = [conts EXCEPT ![c] = l.cont]
    /\ refcount' = l.rc
    /\ last' = Call(op, c, args, 0, l.res, l.gets, l.opens, l.closes)
    /\ UNCHANGED <<libs, resolver, memory, threads>>

WrapperLoad(c, path, api) ==
    ContainerLoad("wrapper::Container::load", c,
                  LoadArgs(open_lib(path, <<>>), api, <<>>),
                  wrapper_Container_load(open_lib(path, <<>>), api, refcount))

WrapperLoadWithFlags(c, path, flags, api) ==
    ContainerLoad("wrapper::Container::load_with_flags", c,
                  LoadArgs(open_lib(path, flags), api, <<>>),
                  wrapper_Container_load(open_lib(path, flags), api, refcount))

WrapperLoadSelf(c, api) ==
    ContainerLoad("wrapper::Container::load_self", c,
                  LoadArgs(open_self, api, <<>>),
                  wrapper_Container_load(open_self, api, refcount))

SymborLoad(c, path, api) ==
    ContainerLoad("symbor::Container::load", c,
                  LoadArgs(open_lib(path, <<>>), api, <<>>),
                  symbor_Container_load(open_lib(path, <<>>), api, refcount))

SymborLoadSelf(c, api) ==
    ContainerLoad("symbor::Container::load_self", c,
                  LoadArgs(open_self, api, <<>>),
                  symbor_Container_load(open_self, api, refcount))

OptionalLoad(c, path, api, optapi) ==
    ContainerLoad("OptionalContainer::load", c,
                  LoadArgs(open_lib(path, <<>>), api, optapi),
                  OptionalContainer_load(open_lib(path, <<>>), api, optapi, refcount))

OptionalLoadWithFlags(c, path, flags, api, optapi) ==
    ContainerLoad("OptionalContainer::load_with_flags", c,
                  LoadArgs(open_lib(path, flags), api, optapi),
                  OptionalContainer_load(open_lib(path, flags), api, optapi, refcount))

OptionalLoadSelf(c, api, optapi) ==
    ContainerLoad("OptionalContainer::load_self", c,
                  LoadArgs(open_self, api, optapi),
                  OptionalContainer_load(open_self, api, optapi, refcount))

\* Deref / DerefMut: a reference to the api field
Deref(c) ==
    /\ conts[c].state = "live"
    /\ last' = Call("deref", c, <<>>, 0, Ok(conts[c].api), <<>>, 0, 0)
    /\ UNCHANGED <<refcount, libs, conts, resolver, memory, threads>>

DerefMut(c) ==
    /\ conts[c].state = "live"
    /\ last' = Call("deref_mut", c, <<>>, 0, Ok(conts[c].api), <<>>, 0, 0)
    /\ UNCHANGED <<refcount, libs, conts, resolver, memory, threads>>

\* OptionalContainer::optional / optional_mut
Optional(c) ==
    /\ conts[c].state = "live"
    /\ conts[c].kind = "optional"
    /\ last' = Call("optional", c, <<>>, 0, Ok(conts[c].optional), <<>>, 0, 0)
    /\ UNCHANGED <<refcount, libs, conts, resolver, memory, threads>>

OptionalMut(c) ==
    /\ conts[c].state = "live"
    /\ conts[c].kind = "optional"
    /\ last' = Call("optional_mut", c, <<>>, 0, Ok(conts[c].optional), <<>>, 0, 0)
    /\ UNCHANGED <<refcount, libs, conts, resolver, memory, threads>>

\* Container::into_raw as it would be if it gave the library up
ContainerIntoRaw_closing(c) ==
    /\ conts[c].state = "live"
    /\ conts' = [conts EXCEPT ![c].lib = DropLib(conts[c].lib, refcount).lib]
    /\ refcount' = DropLib(conts[c].lib, refcount).rc
    /\ last' = Call("Container::into_raw", c, <<>>, 0,
                    Ok(<<into_raw(conts[c].lib)>>), <<>>, 0, 1)
    /\ UNCHANGED <<libs, resolver, memory, threads>>

\* Container::into_raw
ContainerIntoRaw(c) ==
    /\ conts[c].state = "live"
    /\ last' = Call("Container::into_raw", c, <<>>, 0,
                    Ok(<<into_raw(conts[c].lib)>>), <<>>, 0, 0)
    /\ UNCHANGED <<refcount, libs, conts, resolver, memory, threads>>

ContainerDropped(c, d) ==
    /\ conts' = [conts EXCEPT ![c] = d.cont]
    /\ refcount' = d.rc
    /\ last' = [Call("drop_container", c, <<>>, 0, Ok(<<>>), <<>>, 0,
                     d.cont.lib.closes - conts[c].lib.closes)
                EXCEPT !.order = d.order]
    /\ memory' = Unmapped(memory, d.rc)
    /\ UNCHANGED <<libs, resolver, threads>>

DropContainer(c) ==
    /\ conts[c].state = "live"
    /\ ContainerDropped(c, DropFields(FieldOrder(conts[c].kind), 1, conts[c],
                                      refcount, <<>>))

(***************************************************************************)
(* Specifications.                                                         *)
(***************************************************************************)
LibraryLifecycle ==
    \/ \E i \in LibSlots, p \in Paths : Open(i, p)
    \/ \E i \in LibSlots, p \in Paths, f \in Flags : OpenWithFlags(i, p, f)
    \/ \E i \in LibSlots : OpenSelf(i)
    \/ \E i \in LibSlots : IntoRaw(i)
    \/ \E i \in LibSlots : DropLibrary(i)

\* containers, beside raw Library values of the same images
Next ==
    \/ LibraryLifecycle
    \/ \E c \in ContSlots, p \in Paths, a \in ContainerApis : WrapperLoad(c, p, a)
    \/ \E c \in ContSlots, p \in Paths, f \in Flags, a \in ContainerApis :
          WrapperLoadWithFlags(c, p, f, a)
    \/ \E c \in ContSlots, a \in ContainerApis : WrapperLoadSelf(c, a)
    \/ \E c \in ContSlots, p \in Paths, a \in SymBorApis : SymborLoad(c, p, a)
    \/ \E c \in ContSlots, a \in SymBorApis : SymborLoadSelf(c, a)
    \/ \E c \in ContSlots, p \in Paths, a \in ContainerApis, o \in OptionalApis :
          OptionalLoad(c, p, a, o)
    \/ \E c \in ContSlots, p \in Paths, f \in Flags, a \in ContainerApis,
          o \in OptionalApis : OptionalLoadWithFlags(c, p, f, a, o)
    \/ \E c \in ContSlots, a \in ContainerApis, o \in OptionalApis :
          OptionalLoadSelf(c, a, o)
    \/ \E c \in ContSlots : Deref(c)
    \/ \E c \in ContSlots : DerefMut(c)
    \/ \E c \in ContSlots : Optional(c)
    \/ \E c \in ContSlots : OptionalMut(c)
    \/ \E c \in ContSlots : ContainerIntoRaw(c)
    \/ \E c \in ContSlots : DropContainer(c)

Spec == Init /\ [][Next]_vars

\* the load of a derived WrapperApi structure from a Library
ApiLoaded(i, api, r) ==
    /\ last' = Call("WrapperApi::load", i, api, 0, r.res, r.gets, 0, 0)
    /\ UNCHANGED <<refcount, libs, conts, resolver, memory, threads>>

ApiLoad(i, api) ==
    /\ libs[i].state = "open"
    /\ ApiLoaded(i, api, WrapperApi_load(api, libs[i]))

\* fields of the structures loaded: a function, a reference to a null symbol,
\* and an optional function and an optional reference for each of the three
\* cases of a symbol
ApiFields ==
    {Field(n, <<>>, BareFn) : n \in {SymAddress, SymAbsent}}
    \cup {Field(SymNull, <<>>, Reference(FALSE))}
    \cup {Field(n, <<>>, Path(FALSE, <<"Option">>, "BareFn")) :
             n \in {SymAddress, SymNull, SymAbsent}}
    \cup {Field(n, <<>>, Path(TRUE, <<"std", "option", "Option">>, "Reference")) :
             n \in {SymAddress, SymNull, SymAbsent}}

DerivedApis == SeqsUpTo(ApiFields, MaxFields)

\* derived WrapperApi structures loaded from one Library
NextApi ==
    \/ \E p \in Paths : Open(First(LibSlots), p)
    \/ OpenSelf(First(LibSlots))
    \/ DropLibrary(First(LibSlots))
    \/ \E a \in DerivedApis : ApiLoad(First(LibSlots), a)

SpecApi == Init /\ [][NextApi]_vars

\* #[derive(WrapperApi)] on a structure
Derived(api, r) ==
    /\ last' = Call("derive(WrapperApi)", 0, api, 0, r, <<>>, 0, 0)
    /\ UNCHANGED <<refcount, libs, conts, resolver, memory, threads>>

DeriveWrapperApi(api) == Derived(api, impl_wrapper_api(api))

\* the load of a structure the generator accepted
DerivedLoad(i, api) ==
    /\ impl_wrapper_api(api).tag = "Ok"
    /\ ApiLoad(i, api)

\* types a field is declared with
DeclaredTypes ==
    {BareFn, VariadicFn, Reference(FALSE), Reference(TRUE), Ptr(FALSE), Ptr(TRUE),
     Tuple, Path(FALSE, <<"Vec">>, "Other"), Path(FALSE, <<"Option">>, "")}
    \cup {Path(FALSE, <<"Option">>, a) :
             a \in {"BareFn", "VariadicFn", "Reference", "ReferenceMut", "Ptr", "Other"}}
    \cup {Path(TRUE, <<"std", "option", "Option">>, a) : a \in {"BareFn", "Reference"}}

\* attributes a field is declared with
DeclaredAttrs ==
    {<<>>, <<MarkerAttr(ALLOW_NULL)>>, <<NameValueAttr("dlopen2_name", SymAddress)>>,
     <<NameValueAttr("dlopen2_name", SymNull), MarkerAttr(ALLOW_NULL)>>,
     <<NameValueAttr("dlopen2_name", SymAddress), MarkerAttr(ALLOW_NULL)>>,
     <<MarkerAttr("deprecated"), MarkerAttr(ALLOW_NULL)>>}

DeclaredFields ==
    {Field(n, a, t) : n \in {SymNull, SymAbsent}, a \in DeclaredAttrs,
                      t \in DeclaredTypes}

\* data fields that name the symbol exported at an address, by their own name
\* or by dlopen2_name
DataFields ==
    {Field(SymAddress, <<>>, Reference(TRUE)),
     Field(SymAbsent, <<NameValueAttr("dlopen2_name", SymAddress)>>, Ptr(FALSE)),
     Field(SymNull, <<NameValueAttr("dlopen2_name", SymAddress)>>, Reference(FALSE))}

\* structures of one field of every declared shape, and of two data fields
DeclaredStructs ==
    {<<f>> : f \in DeclaredFields} \cup {<<f, g>> : f, g \in DataFields}

\* the generator, and the loads of the structures it accepted
NextDerive ==
    \/ \E p \in Paths : Open(First(LibSlots), p)
    \/ OpenSelf(First(LibSlots))
    \/ DropLibrary(First(LibSlots))
    \/ \E a \in DeclaredStructs : DeriveWrapperApi(a)
    \/ \E a \in DeclaredStructs : DerivedLoad(First(LibSlots), a)

SpecDerive == Init /\ [][NextDerive]_vars

(***************************************************************************)
(* Operations on AddressInfoObtainer values.                               *)
(***************************************************************************)
ObtainerMade(op, o, n) ==
    /\ obtainers[o].state = "none"
    /\ obtainers' = [obtainers EXCEPT ![o] = n.obt]
    /\ facility' = n.fac
    /\ last' = Call(op, o, <<>>, 0, Ok(<<>>), <<>>, 0, 0)
    /\ UNCHANGED <<refcount, libs, conts, memory, threads>>

ObtainerNew(o) ==
    ObtainerMade("AddressInfoObtainer::new", o, AddressInfoObtainer_new(facility))

ObtainerDefault(o) ==
    ObtainerMade("AddressInfoObtainer::default", o,
                 AddressInfoObtainer_default(facility))

\* obtain as it would be if a call counted as an instance of the facility
Obtain_counting(o, addr) ==
    /\ obtainers[o].state = "live"
    /\ last' = Call("obtain", o, addr, 0, obtain(addr, refcount, facility),
                    <<>>, 0, 0)
    /\ facility' = addr_info_init(facility)
    /\ UNCHANGED <<refcount, libs, conts, obtainers, memory, threads>>

Obtain(o, addr) ==
    /\ obtainers[o].state = "live"
    /\ last' = Call("obtain", o, addr, 0, obtain(addr, refcount, facility),
                    <<>>, 0, 0)
    /\ UNCHANGED <<refcount, libs, conts, resolver, memory, threads>>

ObtainerDropped(o, d) ==
    /\ obtainers' = [obtainers EXCEPT ![o] = d.obt]
    /\ facility' = d.fac
    /\ last' = Call("drop(AddressInfoObtainer)", o, <<>>, 0, Ok(<<>>), <<>>, 0, 0)
    /\ UNCHANGED <<refcount, libs, conts, memory, threads>>

ObtainerDrop(o) ==
    /\ obtainers[o].state = "live"
    /\ ObtainerDropped(o, AddressInfoObtainer_drop(obtainers[o], facility))

\* another component of the process initialises the facility while no
\* resolver exists (the runtime's backtrace does)
InitializedElsewhere ==
    /\ facility.count = 0
    /\ ~facility.ready
    /\ facility' = [facility EXCEPT !.ready = TRUE]
    /\ last' = Call("initialized elsewhere", 0, <<>>, 0, Ok(<<>>), <<>>, 0, 0)
    /\ UNCHANGED <<refcount, libs, conts, obtainers, memory, threads>>

\* addresses handed to obtain: of exported symbols, inside an image but of no
\* symbol, the start of an image, and null
ObtainAddresses ==
    {AddressOf(i, n) : i \in Images, n \in {SymAddress, SymNull}}
    \cup {BaseOf(i) : i \in Images} \cup {Null}

\* resolvers, beside one Library that is opened and dropped
NextAddr ==
    \/ \E p \in Paths : Open(First(LibSlots), p)
    \/ OpenSelf(First(LibSlots))
    \/ DropLibrary(First(LibSlots))
    \/ \E o \in ObtainerSlots : ObtainerNew(o)
    \/ \E o \in ObtainerSlots : ObtainerDefault(o)
    \/ \E o \in ObtainerSlots, a \in ObtainAddresses : Obtain(o, a)
    \/ \E o \in ObtainerSlots : ObtainerDrop(o)
    \/ InitializedElsewhere

SpecAddr == Init /\ [][NextAddr]_vars

(***************************************************************************)
(* Writes and reads of an exported static through its resolutions.         *)
(***************************************************************************)
Route(op, slot, image, res) == [op |-> op, slot |-> slot, image |-> image, res |-> res]

\* the resolutions of the static a program can make or holds: by symbol and
\* symbol_cstr on an open Library, and the fields of a live container's API
Routes ==
    {Route("symbol", i, libs[i].handle, symbol(libs[i], SymAddress, PtrSize).res) :
        i \in {j \in LibSlots : libs[j].state = "open"}}
    \cup
    {Route("symbol_cstr", i, libs[i].handle,
           symbol_cstr(libs[i], Append(SymAddress, 0), PtrSize).res) :
        i \in {j \in LibSlots : libs[j].state = "open"}}
    \cup
    UNION {{Route(conts[c].kind, c, conts[c].lib.handle, Ok(conts[c].api[k].ptr)) :
               k \in DOMAIN conts[c].api} :
           c \in {d \in ContSlots : conts[d].state = "live"}}

Access(r, v) == [route |-> r.op, image |-> r.image, addr |-> r.res.val, value |-> v]

\* *reference = v
Write(r, v) ==
    /\ r.res.tag = "Ok"
    /\ memory' = [memory EXCEPT ![r.res.val] = v]
    /\ last' = Call("write", r.slot, Access(r, v), 0, Ok(v), <<>>, 0, 0)
    /\ UNCHANGED <<refcount, libs, conts, resolver, threads>>

\* *reference, *pointer
Read(r) ==
    /\ r.res.tag = "Ok"
    /\ last' = Call("read", r.slot, Access(r, memory[r.res.val]), 0,
                    Ok(memory[r.res.val]), <<>>, 0, 0)
    /\ UNCHANGED <<refcount, libs, conts, resolver, memory, threads>>

\* one Library and one container, of the same image or of two, and the
\* statics of the images
NextData ==
    \/ \E p \in Paths : Open(First(LibSlots), p)
    \/ OpenSelf(First(LibSlots))
    \/ DropLibrary(First(LibSlots))
    \/ \E c \in ContSlots, p \in Paths : WrapperLoad(c, p, DataApi)
    \/ \E c \in ContSlots : WrapperLoadSelf(c, DataApi)
    \/ \E c \in ContSlots, p \in Paths : SymborLoad(c, p, SymBorData)
    \/ \E c \in ContSlots : DropContainer(c)
    \/ \E r \in Routes, v \in DataValues : Write(r, v)
    \/ \E r \in Routes : Read(r)

SpecData == Init /\ [][NextData]_vars

(***************************************************************************)
(* symbol / symbol_cstr called by several threads on one Library.          *)
(***************************************************************************)
ThreadEntered(t, i, e) ==
    /\ libs[i].state = "open"
    /\ threads[t].pc = "idle"
    /\ threads' = [threads EXCEPT ![t] = e]
    /\ UNCHANGED <<refcount, libs, conts, last, resolver, memory>>

ThreadSymbol(t, i, name, tsize) ==
    ThreadEntered(t, i, ThreadEntry("symbol", i, name, tsize, CString_new(name)))

ThreadSymbolCstr(t, i, cname, tsize) ==
    ThreadEntered(t, i, ThreadEntry("symbol_cstr", i, cname, tsize, Ok(cname)))

InLookup(t) == {u \in ThreadSlots \ {t} : threads[u].pc = "check"}

\* get_sym as it would be if the call gave the stored handle up
ThreadGetSym_closing(t) ==
    /\ threads[t].pc = "lookup"
    /\ threads' = [threads EXCEPT
          ![t].pc = "check",
          ![t].raw = get_sym(libs[threads[t].lib].handle, threads[t].cname),
          ![t].with = InLookup(t)]
    /\ libs' = [libs EXCEPT ![threads[t].lib].handle = close_lib(@)]
    /\ UNCHANGED <<refcount, conts, last, resolver, memory>>

\* get_sym(self.handle, name): the read of the stored handle and the lookup
ThreadGetSym(t) ==
    /\ threads[t].pc = "lookup"
    /\ threads' = [threads EXCEPT
          ![t].pc = "check",
          ![t].raw = get_sym(libs[threads[t].lib].handle, threads[t].cname),
          ![t].with = InLookup(t)]
    /\ UNCHANGED <<refcount, libs, conts, last, resolver, memory>>

\* `?`, the null check and the value returned
ThreadReturn(t) ==
    /\ threads[t].pc = "check"
    /\ threads' = [threads EXCEPT
          ![t].pc = "done",
          ![t].res = SymbolOfRaw(threads[t].raw, threads[t].cname).res]
    /\ UNCHANGED <<refcount, libs, conts, last, resolver, memory>>

\* the thread is joined
ThreadJoin(t) ==
    /\ threads[t].pc = "done"
    /\ threads' = [threads EXCEPT ![t] = NoThread]
    /\ UNCHANGED <<refcount, libs, conts, last, resolver, memory>>

\* the Library is dropped by its owner when no thread borrows it any more
DropShared(i) ==
    /\ \A t \in ThreadSlots : threads[t].pc = "idle"
    /\ DropLibrary(i)

\* names the threads resolve: exported, exported as null, absent, and one
\* with an interior NUL
ThreadNames == {SymAddress, SymNull, SymAbsent, <<1, 0>>}

NextThreads ==
    \/ \E p \in Paths : Open(First(LibSlots), p)
    \/ OpenSelf(First(LibSlots))
    \/ DropShared(First(LibSlots))
    \/ \E t \in ThreadSlots, n \in ThreadNames, z \in {PtrSize, 2 * PtrSize} :
          ThreadSymbol(t, First(LibSlots), n, z)
    \/ \E t \in ThreadSlots, n \in ThreadNames \cap {m \in Names : ~HasNul(m)},
          z \in {PtrSize, 2 * PtrSize} :
          ThreadSymbolCstr(t, First(LibSlots), Append(n, 0), z)
    \/ \E t \in ThreadSlots : ThreadGetSym(t)
    \/ \E t \in ThreadSlots : ThreadReturn(t)
    \/ \E t \in ThreadSlots : ThreadJoin(t)

SpecThreads == Init /\ [][NextThreads]_vars

(***************************************************************************)
(* symbor: the conversion of one raw resolution result.                    *)
(***************************************************************************)
Conversion(wrap, raw_result) == [wrap |-> wrap, raw |-> raw_result]

Converted(i, field, raw) ==
    /\ libs[i].state = "open"
    /\ last' = Call("from_raw_result", i, Conversion(field.wrap, raw.res), PtrSize,
                    SymBorFieldLoad(field, raw), raw.gets, 0, 0)
    /\ UNCHANGED <<refcount, libs, conts, resolver, memory, threads>>

\* T::from_raw_result(lib.ptr_or_null_cstr(name)) for a field of type T
FieldConversion(i, field) ==
    Converted(i, field, RawResult(libs[i], Append(field.sym, 0)))

\* the wrapper types a field converts into
Wraps == {"Symbol", "PtrOrNull", "Option", "Option<PtrOrNull>"}

NextSymbor ==
    \/ \E p \in Paths : Open(First(LibSlots), p)
    \/ OpenSelf(First(LibSlots))
    \/ DropLibrary(First(LibSlots))
    \/ \E n \in {m \in Names : ~HasNul(m)}, w \in Wraps :
          FieldConversion(First(LibSlots), SymBorField(n, w))
    \/ \E c \in ContSlots, p \in Paths, n \in {SymNull, SymAbsent}, w \in Wraps :
          SymborLoad(c, p, <<SymBorField(SymAddress, "Symbol"), SymBorField(n, w)>>)
    \/ \E c \in ContSlots : DropContainer(c)

SpecSymbor == Init /\ [][NextSymbor]_vars

(***************************************************************************)
(* Option<Api> loaded as a WrapperApi, alone and as the fields of a        *)
(* structure of two optional sub-APIs.                                     *)
(***************************************************************************)
OptionLoaded(op, i, arg, r) ==
    /\ libs[i].state = "open"
    /\ last' = Call(op, i, arg, 0, r.res, r.gets, 0, 0)
    /\ UNCHANGED <<refcount, libs, conts, resolver, memory, threads>>

OptionApiLoad(i, api) ==
    OptionLoaded("Option<Api>::load", i, api, Option_load(WrapperApi_load(api, libs[i])))

MultiApiLoad(i, a, b) ==
    OptionLoaded("MultiApi::load", i, <<a, b>>,
                 MultiApi_load(Option_load(WrapperApi_load(a, libs[i])),
                               Option_load(WrapperApi_load(b, libs[i]))))

NextOption ==
    \/ \E p \in Paths : Open(First(LibSlots), p)
    \/ OpenSelf(First(LibSlots))
    \/ DropLibrary(First(LibSlots))
    \/ \E a \in DerivedApis : OptionApiLoad(First(LibSlots), a)
    \/ \E a \in ContainerApis, b \in ContainerApis : MultiApiLoad(First(LibSlots), a, b)

SpecOption == Init /\ [][NextOption]_vars

\* symbol resolution on raw Library values
NextRaw ==
    \/ LibraryLifecycle
    \/ \E i \in LibSlots, n \in Names, t \in TSizes : Symbol(i, n, t)
    \/ \E i \in LibSlots, c \in CStrs, t \in TSizes : SymbolCstr(i, c, t)

SpecRaw == Init /\ [][NextRaw]_vars

(***************************************************************************)
(* Properties of raw::Library, checked under SpecRaw.                      *)
(***************************************************************************)
IsResolution == last.op \in {"symbol", "symbol_cstr"}

\* the Library values that hold a handle of image h: raw values and those
\* owned by containers
Holders(h) ==
    Cardinality({i \in LibSlots : libs[i].state = "open" /\ libs[i].handle = h})
    + Cardinality({c \in ContSlots :
                     conts[c].lib.state = "open" /\ conts[c].lib.handle = h})

ThreeOutcomes(raw) ==
    /\ last.gets = <<last.arg>>
    /\ (raw.tag = "Ok" /\ raw.val # Null) => last.res = Ok(raw.val)
    /\ (raw.tag = "Ok" /\ raw.val = Null) => last.res = Err("NullSymbol")
    /\ raw.tag = "Err" => last.res = raw
    /\ last.res.tag = "Ok" => last.res.val # Null
    /\ last.res = Err("NullSymbol") => raw.tag = "Ok"

\* C1: symbol_cstr with a pointer-sized T asks get_sym once and returns Ok(value)
\* when get_sym gave a non-null address, Err(NullSymbol) when it gave the null
\* address and the backend's error unchanged when get_sym failed; a null
\* address is never Ok and a missing symbol is never NullSymbol.
C1_ThreeOutcomes ==
    (last.op = "symbol_cstr" /\ last.tsize = PtrSize)
        => ThreeOutcomes(get_sym(libs[last.slot].handle, last.arg))

C1_Witness ==
    /\ last.op = "symbol_cstr"
    /\ last.tsize = PtrSize
    /\ last.res = Err("NullSymbol")
    /\ ExportOf(libs[last.slot].handle, CStrBytes(last.arg)) = "null"

C5_Closes ==
    /\ \A i \in LibSlots :
          /\ libs[i].state = "open" =>
                libs[i].closes = 0 /\ libs[i].handle \in Images
          /\ libs[i].state = "dropped" => libs[i].closes = 1
          /\ libs[i].state = "none" => libs[i].closes = 0
    /\ \A h \in Images :
          refcount[h] = Holders(h) + (IF h = SelfImage THEN 1 ELSE 0)
    /\ last.op = "into_raw" =>
          /\ libs[last.slot].state = "open"
          /\ last.res = Ok(<<libs[last.slot].handle>>)
    /\ last.op \in {"symbol", "symbol_cstr", "into_raw"} => last.closes = 0
    /\ (last.op \in {"open", "open_with_flags", "open_self"} /\ last.res.tag = "Err")
          => last.closes = 0 /\ last.opens = 0

C5_Step ==
    /\ last'.op \in {"symbol", "symbol_cstr", "into_raw"} =>
          libs' = libs /\ refcount' = refcount
    /\ (last'.op \in {"open", "open_with_flags", "open_self"} /\ last'.res.tag = "Err")
          => libs' = libs /\ refcount' = refcount
    /\ \A i \in LibSlots :
          libs'[i].closes > libs[i].closes =>
              /\ last'.op = "drop" /\ last'.slot = i
              /\ libs[i].state = "open" /\ libs'[i].state = "dropped"
              /\ libs'[i].closes = libs[i].closes + 1
              /\ refcount'[libs[i].handle] = refcount[libs[i].handle] - 1

\* C5: the handle of a Library is closed once, when the Library is dropped, and
\* at no other time: an open Library has had no close, a dropped one exactly
\* one, the loader's count of every image is the number of Library values
\* that hold it; symbol, symbol_cstr and into_raw change neither a Library nor
\* the loader, into_raw returns the stored handle, and a failed open makes no
\* Library and no close.
C5_ClosedOnceAtDrop == []C5_Closes /\ [][C5_Step]_vars

C5_Witness ==
    /\ last.op = "drop"
    /\ libs[last.slot].state = "dropped"
    /\ libs[last.slot].closes = 1
    /\ last.closes = 1

\* C7: with a T that is not pointer-sized neither symbol nor symbol_cstr calls
\* get_sym, and symbol_cstr reports the mismatch, for every name and library.
C7_NoBackendCall ==
    (IsResolution /\ last.tsize # PtrSize) =>
        /\ last.gets = <<>>
        /\ last.op = "symbol_cstr" => last.res.tag = "Panic"

C7_Witness ==
    /\ last.op = "symbol_cstr"
    /\ last.tsize # PtrSize
    /\ last.res.tag = "Panic"
    /\ ExportOf(libs[last.slot].handle, CStrBytes(last.arg)) = "address"

\* C8: a call of symbol or symbol_cstr with a T that is not pointer-sized
\* panics, for every name, a name with an embedded NUL byte included: it
\* never returns Ok or Err.
C8_AlwaysPanics == (IsResolution /\ last.tsize # PtrSize) => last.res.tag = "Panic"

SameAsCStr(r) == last.res = r.res /\ last.gets = r.gets

C9_Result ==
    last.op = "symbol" =>
        IF HasNul(last.arg)
        THEN last.res = Err("NullCharacter") /\ last.gets = <<>>
        ELSE /\ SameAsCStr(symbol_cstr(libs[last.slot], Append(last.arg, 0), last.tsize))
             /\ last.tsize = PtrSize =>
                   /\ Len(last.gets) = 1
                   /\ CStrBytes(last.gets[1]) = last.arg
                   /\ ExportOf(libs[last.slot].handle, last.arg) = "address"
                         => last.res = Ok(AddressOf(libs[last.slot].handle, last.arg))

C9_Step == last'.op = "symbol" => libs' = libs /\ refcount' = refcount

\* C9: symbol with a name that holds a NUL byte returns the encoding error as
\* an Err, without a call of get_sym and without a change of the Library; a
\* name without NUL is resolved as symbol_cstr resolves the name with its
\* terminating NUL, the backend being asked for exactly that name.
C9_EncodingError == []C9_Result /\ [][C9_Step]_vars

C9_Witness ==
    /\ last.op = "symbol"
    /\ HasNul(last.arg)
    /\ last.arg # <<0>>
    /\ last.tsize = PtrSize
    /\ last.res = Err("NullCharacter")


(***************************************************************************)
(* Properties of the containers, checked under Spec.                       *)
(***************************************************************************)
WrapperLoads ==
    {"wrapper::Container::load", "wrapper::Container::load_with_flags",
     "wrapper::Container::load_self"}

SymborLoads == {"symbor::Container::load", "symbor::Container::load_self"}

OptionalLoads ==
    {"OptionalContainer::load", "OptionalContainer::load_with_flags",
     "OptionalContainer::load_self"}

Accessors == {"deref", "deref_mut", "optional", "optional_mut", "Container::into_raw"}

IsLive(c) == conts[c].state = "live"

\* every address held by the values of an API structure lies in image h
PointsInto(vals, h) ==
    \A k \in 1..Len(vals) : vals[k].ptr = Null \/ vals[k].ptr[1] = h

C2_Loaded ==
    \A c \in ContSlots :
        IsLive(c) =>
            /\ conts[c].lib.state = "open"
            /\ conts[c].lib.closes = 0
            /\ conts[c].lib.handle \in Images
            /\ refcount[conts[c].lib.handle] >= 1
            /\ PointsInto(conts[c].api, conts[c].lib.handle)
            /\ \A k \in 1..Len(conts[c].optional) :
                  PointsInto(conts[c].optional[k], conts[c].lib.handle)

C2_Step ==
    /\ last'.op \in Accessors =>
          conts' = conts /\ refcount' = refcount /\ last'.closes = 0
    /\ \A c \in ContSlots :
          (IsLive(c) /\ last'.op # "drop_container") =>
              conts'[c] = conts[c] /\ refcount'[conts[c].lib.handle] >= 1

\* C2: while a container exists the library it owns is loaded: its Library is
\* open and never closed, the loader still counts the image, every address
\* of its API lies in that image, and no accessor (deref, deref_mut,
\* optional, optional_mut, into_raw) nor any operation on other values changes
\* the container or unloads its library.
C2_LibraryStaysLoaded == []C2_Loaded /\ [][C2_Step]_vars

C2_Witness ==
    /\ last.op = "Container::into_raw"
    /\ IsLive(last.slot)
    /\ last.res = Ok(<<conts[last.slot].lib.handle>>)
    /\ \E k \in 1..Len(conts[last.slot].api) :
          conts[last.slot].api[k].ptr # Null
    /\ refcount[conts[last.slot].lib.handle] >= 1

ApiLoadOf(op, api, lib) ==
    IF op \in SymborLoads THEN SymBorApi_load(api, lib) ELSE WrapperApi_load(api, lib)

OpenFailed ==
    /\ last.res = last.arg.opened
    /\ last.opens = 0
    /\ last.closes = 0
    /\ ~IsLive(last.slot)

AllOrNothing(a) ==
    IF a.res.tag = "Err"
    THEN /\ last.res = a.res
         /\ last.opens = 1
         /\ last.closes = 1
         /\ ~IsLive(last.slot)
    ELSE /\ last.res.tag = "Ok"
         /\ last.opens = 1
         /\ last.closes = 0
         /\ IsLive(last.slot)
         /\ conts[last.slot].api = a.res.val
         /\ conts[last.slot].lib = OpenLibrary(last.arg.opened.val[1])

C3_Outcome ==
    last.op \in WrapperLoads \cup SymborLoads =>
        IF last.arg.opened.tag = "Err" THEN OpenFailed
        ELSE AllOrNothing(ApiLoadOf(last.op, last.arg.api,
                                    OpenLibrary(last.arg.opened.val[1])))

C3_Step ==
    (last'.op \in WrapperLoads \cup SymborLoads /\ last'.res.tag = "Err") =>
        /\ refcount' = refcount
        /\ libs' = libs
        /\ \A c \in ContSlots : ~IsLive(c) => conts'[c].state # "live"
        /\ \A c \in ContSlots : IsLive(c) => conts'[c] = conts[c]

\* C3: a load of a wrapper or symbor Container whose library opens and whose
\* API fails to resolve closes the library just opened exactly once, returns
\* the resolution error and leaves no container; after a failed load the
\* loader's counts and all other values are as before the call.
C3_AllOrNothing == []C3_Outcome /\ [][C3_Step]_vars

C3_Witness ==
    /\ last.op \in WrapperLoads \cup SymborLoads
    /\ last.arg.opened.tag = "Ok"
    /\ last.res = Err("SymbolGettingError")
    /\ last.opens = 1
    /\ last.closes = 1
    /\ Len(last.gets) = 2
    /\ ~IsLive(last.slot)

\* C4: when a container is dropped the library is the last of its fields to go:
\* the API is torn down first and the library is unloaded last.
C4_LibraryDroppedLast ==
    last.op = "drop_container" =>
        /\ last.order # <<>>
        /\ last.order[Len(last.order)] = "lib"

OptionalOutcome(m, o) ==
    IF m.res.tag = "Err"
    THEN /\ last.res = m.res
         /\ last.opens = 1
         /\ last.closes = 1
         /\ ~IsLive(last.slot)
    ELSE /\ last.res.tag = "Ok"
         /\ last.closes = 0
         /\ IsLive(last.slot)
         /\ conts[last.slot].kind = "optional"
         /\ conts[last.slot].api = m.res.val
         /\ conts[last.slot].optional =
               (IF o.res.tag = "Ok" THEN <<o.res.val>> ELSE <<>>)

C6_Outcome ==
    /\ last.op \in OptionalLoads =>
          IF last.arg.opened.tag = "Err" THEN OpenFailed
          ELSE OptionalOutcome(
                   WrapperApi_load(last.arg.api, OpenLibrary(last.arg.opened.val[1])),
                   WrapperApi_load(last.arg.optapi, OpenLibrary(last.arg.opened.val[1])))
    /\ last.op \in {"optional", "optional_mut"} =>
          last.res = Ok(conts[last.slot].optional)

C6_Step ==
    (last'.op \in OptionalLoads /\ last'.res.tag = "Err") => refcount' = refcount

\* C6: a load of an OptionalContainer succeeds exactly when the library opens
\* and the mandatory API resolves; optional() is Some exactly when the
\* optional API resolved and None when it failed, never an Err; a failure of
\* the mandatory API gives Err with the library unloaded.
C6_OptionalNeverFails == []C6_Outcome /\ [][C6_Step]_vars

C6_Witness ==
    /\ last.op \in OptionalLoads
    /\ last.res.tag = "Ok"
    /\ IsLive(last.slot)
    /\ conts[last.slot].optional = <<>>
    /\ WrapperApi_load(last.arg.optapi, conts[last.slot].lib).res.tag = "Err"

(***************************************************************************)
(* Properties of the derived WrapperApi::load, checked under SpecApi.      *)
(***************************************************************************)
\* a field declared Option<...>
IsOptionField(field) ==
    /\ field.ty.kind = "Path"
    /\ field.ty.segs # <<>>
    /\ field.ty.segs[Len(field.ty.segs)] = "Option"

OptionValue(h, n) ==
    IF ExportOf(h, n) = "address" THEN Some(AddressOf(h, n)) ELSE None

OptionFieldLoaded(api, h, k) ==
    /\ last.gets[k] = Append(symbol_name(api[k]), 0)
    /\ ~(last.res.tag = "Err" /\ Len(last.gets) = k)
    /\ k < Len(api) => Len(last.gets) > k
    /\ last.res.tag = "Ok" => last.res.val[k] = OptionValue(h, symbol_name(api[k]))

\* C10: the load of a derived WrapperApi structure never fails on a field
\* declared Option<function> or Option<reference>: a symbol that is null or
\* not found loads as None, a non-null address as Some, and the load goes on
\* to the next field.
C10_OptionFieldNeverFails ==
    last.op = "WrapperApi::load" =>
        \A k \in 1..Len(last.arg) :
            (IsOptionField(last.arg[k]) /\ k <= Len(last.gets)) =>
                OptionFieldLoaded(last.arg, libs[last.slot].handle, k)

C10_Witness ==
    /\ last.op = "WrapperApi::load"
    /\ Len(last.arg) = 2
    /\ IsOptionField(last.arg[1])
    /\ symbol_name(last.arg[1]) = SymAbsent
    /\ last.res.tag = "Ok"
    /\ last.res.val[1] = None
    /\ last.res.val[2] = Some(AddressOf(libs[last.slot].handle, SymAddress))

(***************************************************************************)
(* Properties of #[derive(WrapperApi)], checked under SpecDerive.          *)
(***************************************************************************)
IsDerive == last.op = "derive(WrapperApi)"

\* a field the generator treats as optional
IsOptionalField(field) ==
    field.ty.kind = "Path" /\ field.ty.arg \in {"BareFn", "Reference", "ReferenceMut"}

HasMethod(methods, prefix, ident) ==
    \E j \in 1..Len(methods) : methods[j].prefix = prefix /\ methods[j].ident = ident

\* C11: for every optional field of a structure the generator accepted, an
\* optional reference as well as an optional function, the generated
\* accessors are the accessor of the field's name and the presence query
\* has_<field>.
C11_PresenceQuery ==
    (IsDerive /\ last.res.tag = "Ok") =>
        \A k \in 1..Len(last.arg) :
            IsOptionalField(last.arg[k]) =>
                /\ HasMethod(last.res.val.methods[k], "", last.arg[k].ident)
                /\ HasMethod(last.res.val.methods[k], "has_", last.arg[k].ident)

\* C12: a function-pointer field marked dlopen2_allow_null is accepted by the
\* generator (and a null symbol then loads as the null pointer).
C12_NullableFunctionAccepted ==
    (/\ IsDerive
     /\ Len(last.arg) = 1
     /\ last.arg[1].ty = BareFn
     /\ last.arg[1].attrs = <<MarkerAttr(ALLOW_NULL)>>)
        => last.res.tag = "Ok"

\* the shapes the generator is to accept: a function pointer, a reference, a
\* mutable reference, a raw pointer, or Option of one of these
AcceptedShape(ty) ==
    \/ ty.kind \in {"BareFn", "Reference", "Ptr"}
    \/ /\ ty.kind = "Path"
       /\ IsOptionPath(ty)
       /\ ty.arg \in {"BareFn", "VariadicFn", "Reference", "ReferenceMut", "Ptr"}

\* C13: the generator accepts a field exactly when its shape is a function
\* pointer, a reference, a mutable reference, a raw pointer or Option of one
\* of these, and emits one resolution attempt for every accepted field.
C13_AcceptedShapes ==
    (IsDerive /\ Len(last.arg) = 1 /\ last.arg[1].attrs = <<>>) =>
        (last.res.tag = "Ok") = AcceptedShape(last.arg[1].ty)

IsApiLoad == last.op = "WrapperApi::load"

\* the attributes of a field that give it a symbol name
NameAttrs(field) ==
    {i \in 1..Len(field.attrs) :
        field.attrs[i].meta = "NameValue" /\ field.attrs[i].ident = "dlopen2_name"}

\* the exported name a field stands for
ExportedName(field) ==
    IF NameAttrs(field) = {} THEN field.ident
    ELSE field.attrs[First(NameAttrs(field))].value

\* C14: the symbol resolved for a field is named by the value of the field's
\* dlopen2_name attribute when it has one and by the field's own name
\* otherwise; two fields that name the same symbol hold the same address.
C14_SymbolName ==
    /\ (IsDerive /\ last.res.tag = "Ok") =>
          \A k \in 1..Len(last.arg) :
              last.res.val.load[k].sym = Append(ExportedName(last.arg[k]), 0)
    /\ IsApiLoad =>
          /\ \A k \in 1..Len(last.gets) :
                last.gets[k] = Append(ExportedName(last.arg[k]), 0)
          /\ last.res.tag = "Ok" =>
                \A j, k \in 1..Len(last.arg) :
                    ExportedName(last.arg[j]) = ExportedName(last.arg[k])
                        => last.res.val[j].ptr = last.res.val[k].ptr

C14_Witness ==
    /\ IsApiLoad
    /\ Len(last.arg) = 2
    /\ last.arg[1].ident # last.arg[2].ident
    /\ last.arg[1].attrs = <<>>
    /\ last.arg[2].attrs # <<>>
    /\ last.res.tag = "Ok"
    /\ last.res.val[1].ptr = AddressOf(libs[last.slot].handle, last.arg[1].ident)
    /\ last.res.val[2].ptr = last.res.val[1].ptr

(***************************************************************************)
(* Order of the generated load, checked under SpecApi.                     *)
(***************************************************************************)
\* a field whose symbol has to resolve
IsMandatory(field) ==
    \/ field.ty.kind \in {"BareFn", "Reference"}
    \/ /\ field.ty.kind = "Ptr"
       /\ ~\E i \in 1..Len(field.attrs) : field.attrs[i] = MarkerAttr(ALLOW_NULL)

\* the mandatory fields of api that image h cannot resolve to an address
FailingFields(api, h) ==
    {k \in 1..Len(api) :
        IsMandatory(api[k]) /\ ExportOf(h, ExportedName(api[k])) # "address"}

ErrorOf(h, n) ==
    IF ExportOf(h, n) = "null" THEN Err("NullSymbol") ELSE Err("SymbolGettingError")

AbortedAt(api, h, k) ==
    /\ last.res = ErrorOf(h, ExportedName(api[k]))
    /\ Len(last.gets) = k

AllLoaded(api, h) ==
    /\ last.res.tag = "Ok"
    /\ Len(last.gets) = Len(api)
    /\ Len(last.res.val) = Len(api)
    /\ \A k \in 1..Len(api) :
          IsMandatory(api[k]) =>
              last.res.val[k] = Plain(AddressOf(h, ExportedName(api[k])))

InOrder(api, h) ==
    /\ Len(last.gets) <= Len(api)
    /\ \A k \in 1..Len(last.gets) : last.gets[k] = Append(ExportedName(api[k]), 0)
    /\ IF FailingFields(api, h) = {} THEN AllLoaded(api, h)
       ELSE AbortedAt(api, h, First(FailingFields(api, h)))

\* C15: the generated load resolves the fields in declaration order; at the
\* first mandatory field that does not resolve to a non-null address it
\* returns that field's error, no later field is resolved and no
\* structure is returned; a structure is returned only when every mandatory
\* field resolved to a non-null address.
C15_AbortAtFirstFailure ==
    IsApiLoad => InOrder(last.arg, libs[last.slot].handle)

C15_Witness ==
    /\ IsApiLoad
    /\ Len(last.arg) = 2
    /\ IsMandatory(last.arg[1])
    /\ last.res = Err("NullSymbol")
    /\ last.gets = <<Append(SymNull, 0)>>

(***************************************************************************)
(* Properties of AddressInfoObtainer, checked under SpecAddr.              *)
(***************************************************************************)
ObtainersIn(state) == {o \in ObtainerSlots : obtainers[o].state = state}

\* C16: every construction of an AddressInfoObtainer (new or default) makes
\* one addr_info_init call and every destruction one addr_info_cleanup call:
\* the init calls less the cleanup calls are the live instances, and no
\* instance has a cleanup without its init.
C16_InitCleanupPaired ==
    /\ \A o \in ObtainersIn("none") :
          obtainers[o].inits = 0 /\ obtainers[o].cleanups = 0
    /\ \A o \in ObtainersIn("live") :
          obtainers[o].inits = 1 /\ obtainers[o].cleanups = 0
    /\ \A o \in ObtainersIn("dropped") :
          obtainers[o].inits = 1 /\ obtainers[o].cleanups = 1
    /\ facility.inits = Cardinality(ObtainersIn("live")) + Cardinality(ObtainersIn("dropped"))
    /\ facility.cleanups = Cardinality(ObtainersIn("dropped"))
    /\ facility.inits - facility.cleanups = Cardinality(ObtainersIn("live"))

C16_Witness ==
    /\ last.op = "drop(AddressInfoObtainer)"
    /\ ObtainersIn("live") # {}
    /\ ObtainersIn("dropped") # {}
    /\ \E o \in ObtainersIn("live") : last.slot < o
    /\ facility.inits = 2
    /\ facility.cleanups = 1

IsObtain == last.op = "obtain"

\* the address is of a symbol exported by an image that is loaded
OfLoadedExport(addr) ==
    /\ addr # Null
    /\ refcount[addr[1]] > 0
    /\ ExportOf(addr[1], addr[2]) = "address"

C17_Available ==
    /\ ObtainersIn("live") # {} => facility.ready
    /\ (IsObtain /\ OfLoadedExport(last.arg)) =>
          last.res.tag = "Ok" /\ last.res.val.overlapping_symbol # <<>>

C17_Step ==
    \A o \in ObtainerSlots :
        (obtainers[o].state = "live" /\ obtainers'[o].state = "live")
            => facility.ready /\ facility'.ready

\* C17: from the end of its construction to its destruction a live
\* AddressInfoObtainer has the facility available and obtain can be used,
\* whatever other instances are constructed or destroyed meanwhile, and
\* also when the facility was initialised before the instance was made.
C17_FacilityAvailable == []C17_Available /\ [][C17_Step]_vars

C17_Witness ==
    /\ IsObtain
    /\ OfLoadedExport(last.arg)
    /\ last.res.tag = "Ok"
    /\ ObtainersIn("dropped") # {}
    /\ facility.count = 1
    /\ facility.cleanups = 1

\* the names that the Library in slot i resolves to address addr
ResolvedNames(i, addr) ==
    {n \in Names : symbol(libs[i], n, PtrSize).res = Ok(addr)}

InfoOf(i, addr, n) ==
    /\ last.res.tag = "Ok"
    /\ last.res.val.dll_path = libs[i].handle
    /\ last.res.val.overlapping_symbol = <<[name |-> n, addr |-> addr]>>

C19_Stateless == IsObtain => last.res = addr_info_obtain(last.arg, refcount, facility)

C19_Step ==
    /\ last'.op = "obtain" =>
          /\ UNCHANGED <<refcount, libs, conts, obtainers, facility, memory, threads>>
          /\ (last.op = "obtain" /\ last.arg = last'.arg) => last'.res = last.res

C20_SameAddress ==
    \A r \in Routes : r.res = Ok(AddressOf(r.image, SymAddress))

StaysLoaded(a) == refcount[a[1]] > 0 /\ refcount'[a[1]] > 0

C20_Step ==
    /\ last'.op = "write" => memory'[last'.arg.addr] = last'.arg.value
    /\ last'.op = "read" => last'.arg.value = memory[last'.arg.addr]
    /\ \A a \in DataAddresses :
          (StaysLoaded(a) /\ ~(last'.op = "write" /\ last'.arg.addr = a))
              => memory'[a] = memory[a]
    /\ (last.op = "write" /\ last'.op = "read" /\ last.arg.image = last'.arg.image)
          => last'.arg.value = last.arg.value

Alone(t) ==
    IF threads[t].op = "symbol"
    THEN symbol(libs[threads[t].lib], threads[t].name, threads[t].tsize).res
    ELSE symbol_cstr(libs[threads[t].lib], threads[t].name, threads[t].tsize).res

C21_Outcomes ==
    \A t \in ThreadSlots :
        /\ threads[t].pc # "idle" => libs[threads[t].lib].state = "open"
        /\ threads[t].pc = "done" => threads[t].res = Alone(t)

C21_Step ==
    (\E t \in ThreadSlots : threads'[t] # threads[t] /\ threads[t].pc # "idle")
        => libs' = libs /\ refcount' = refcount

\* C21: for every interleaving of symbol / symbol_cstr calls that several
\* threads make on one open Library, no step of a call changes the stored
\* handle, and every call returns what it returns when it runs alone.
C21_ConcurrentResolution == []C21_Outcomes /\ [][C21_Step]_vars

C21_Witness ==
    \E t \in ThreadSlots, u \in ThreadSlots :
        /\ threads[t].pc = "done"
        /\ threads[u].pc = "done"
        /\ threads[t].with = {u}
        /\ threads[t].res.tag = "Ok"
        /\ threads[u].res = Err("NullSymbol")

(***************************************************************************)
(* Conversions of the symbor API, checked under SpecSymbor.                *)
(***************************************************************************)
IsConversion(wraps) == last.op = "from_raw_result" /\ last.arg.wrap \in wraps

\* the raw result is a found address that is not null
FoundNonNull(raw_result) == raw_result.tag = "Ok" /\ raw_result.val # Null

\* C22: the conversion of a raw result into Option<T> never fails: it is
\* Some(value) exactly when the conversion into T succeeds (for a symbol, on
\* a found address that is not null; for PtrOrNull, on any found address)
\* and None when T's conversion gives NullSymbol or the symbol is not found.
C22_OptionNeverFails ==
    /\ IsConversion({"Option", "Option<PtrOrNull>"}) => last.res.tag = "Ok"
    /\ IsConversion({"Option"}) =>
          /\ FoundNonNull(last.arg.raw) => last.res = Ok(Some(last.arg.raw.val))
          /\ ~FoundNonNull(last.arg.raw) => last.res = Ok(None)
          /\ Symbol_from_raw_result(last.arg.raw).tag = "Ok"
                <=> last.res.val.opt = "some"
    /\ IsConversion({"Option<PtrOrNull>"}) =>
          /\ last.arg.raw.tag = "Ok" => last.res = Ok(Some(last.arg.raw.val))
          /\ last.arg.raw.tag = "Err" => last.res = Ok(None)

C22_Witness ==
    /\ IsConversion({"Option"})
    /\ last.arg.raw = Err("SymbolGettingError")
    /\ last.res = Ok(None)

\* C23: the conversion into PtrOrNull keeps the three cases apart: a found
\* address, null included, gives Ok holding exactly that address, and a
\* symbol that is not found gives Err with the same error.
C23_PtrOrNullThreeWay ==
    IsConversion({"PtrOrNull"}) =>
        /\ last.arg.raw.tag = "Ok" => last.res = Ok(Plain(last.arg.raw.val))
        /\ last.arg.raw.tag = "Err" => last.res = last.arg.raw
        /\ last.res # Err("NullSymbol")

C23_Witness ==
    /\ IsConversion({"PtrOrNull"})
    /\ last.arg.raw = Ok(Null)
    /\ last.res = Ok(Plain(Null))

(***************************************************************************)
(* Nullable raw-pointer fields, checked under SpecDerive.                  *)
(***************************************************************************)
Markers(field) == {i \in 1..Len(field.attrs) : field.attrs[i].meta = "Path"}

\* the field carries dlopen2_allow_null, at any position
HasAllowNull(field) == \E i \in Markers(field) : field.attrs[i].ident = ALLOW_NULL

\* the field carries dlopen2_allow_null and no other bare attribute
OnlyAllowNull(field) ==
    /\ Markers(field) # {}
    /\ \A i \in Markers(field) : field.attrs[i].ident = ALLOW_NULL

\* the load of a structure of one raw-pointer field
IsPtrLoad == IsApiLoad /\ Len(last.arg) = 1 /\ last.arg[1].ty.kind = "Ptr"

PtrExport == ExportOf(SelfImage, ExportedName(last.arg[1]))

LoadedAddress ==
    /\ last.res.tag = "Ok"
    /\ last.res.val[1].opt = "plain"
    /\ last.res.val[1].ptr # Null
    /\ last.res.val[1].ptr[2] = ExportedName(last.arg[1])

IsPtrDerive ==
    /\ IsDerive
    /\ Len(last.arg) = 1
    /\ last.arg[1].ty.kind = "Ptr"
    /\ last.res.tag = "Ok"

\* C26: has_marker_attr(field, name) is true exactly when some attribute of
\* the field, at any position, is a bare path attribute named name: a
\* raw-pointer field is generated as null-allowing exactly when it carries
\* dlopen2_allow_null, also behind another bare attribute.
C26_MarkerAnywhere ==
    IsPtrDerive =>
        /\ has_marker_attr(last.arg[1], ALLOW_NULL) = HasAllowNull(last.arg[1])
        /\ (last.res.val.load[1].gen = "allow_null") = HasAllowNull(last.arg[1])

\* C27: the null constructor generated for a null-allowing raw-pointer field
\* has the mutability of the pointer: null_mut for *mut, null for *const.
C27_NullMutability ==
    (IsPtrDerive /\ last.res.val.load[1].gen = "allow_null") =>
        last.res.val.load[1].null_fun = IF last.arg[1].ty.mut THEN "null_mut" ELSE "null"

(***************************************************************************)
(* Optional sub-APIs, checked under SpecOption.                            *)
(***************************************************************************)
\* api loads from image h: every mandatory field resolves to an address
Loads(api, h) == FailingFields(api, h) = {}

C25_Outcome ==
    /\ last.op = "Option<Api>::load" => last.res.tag = "Ok" /\ Len(last.res.val) <= 1
    /\ last.op = "MultiApi::load" => last.res.tag = "Ok" /\ Len(last.res.val) = 2

C25_Step ==
    /\ last'.op \in {"Option<Api>::load", "MultiApi::load"} =>
          UNCHANGED <<refcount, libs, conts>>
    /\ last'.op = "Option<Api>::load" =>
          /\ (last'.res.val # <<>>) <=> Loads(last'.arg, libs[last'.slot].handle)
          /\ last'.res.val # <<>> =>
                Ok(last'.res.val[1]) = WrapperApi_load(last'.arg, libs[last'.slot]).res
    /\ last'.op = "MultiApi::load" =>
          \A k \in 1..2 :
              (last'.res.val[k] # <<>>) <=> Loads(last'.arg[k], libs[last'.slot].handle)

\* C25: the load of Option<Api> never fails: it is Ok(Some(api)) exactly when
\* the load of Api from the library succeeds and Ok(None) on any error of
\* that load; it changes neither the library nor its reference count; and
\* in a structure of two optional sub-APIs loaded from one library each is
\* present exactly when its own load succeeds.
C25_OptionalSubApi == []C25_Outcome /\ [][C25_Step]_vars

C25_Witness ==
    /\ last.op = "MultiApi::load"
    /\ last.res.tag = "Ok"
    /\ last.res.val[1] = <<>>
    /\ last.res.val[2] # <<>>
    /\ libs[last.slot].state = "open"

====
